---- MODULE Spec2Model ----
(***************************************************************************)
(* The per-target batch pipeline of kepler:                                *)
(*   scripts/process_kic_target.py  download_with_timeout,                 *)
(*                                  process_kic_target                     *)
(*   main.py                        process_kic (the HTTP trigger)         *)
(* File system state is the result store (results/deviation_array/kic_N),  *)
(* the scratch directories (data/kic_N) and the raw files the download     *)
(* capability leaves on disk.  Floating point values are modelled by       *)
(* integers.                                                               *)
(***************************************************************************)
EXTENDS Integers, Sequences, FiniteSets, TLC

\* ------------------------------------------------------------------ bounds
\* Longest list the search capability returns.
MaxFiles == 3
\* Catalogue numbers requested.
MaxIds == 2
\* Work in one behaviour: one unit per process-kic request and one per
\* handle a search returns.
MaxWork == 5

Ids == 1..MaxIds
\* Execution contexts that can run process_kic; SeqProcs: callers serialised.
Procs == {1, 2}
SeqProcs == {1}

\* ------------------------------------------------------------------ state
VARIABLES
    resDir,     \* resDir[k]: results/deviation_array/kic_k exists
    devFile,    \* devFile[k]: results/.../kic_k/deviation.txt
    metaFile,   \* metaFile[k]: results/.../kic_k/metadata.json
    dataDir,    \* dataDir[k]: data/kic_k exists
    rawFiles,   \* raw FITS files on disk, <<k, h>> for handle h of target k
    detached,   \* downloads still running in a thread nobody joins any more
    run,        \* run[p]: the locals of process_kic / process_kic_target in p
    nRuns,      \* number of runs started so far (history)
    nFound,     \* number of handles the searches returned so far (history)
    raced,      \* ids on which two runs have overlapped (history)
    resp,       \* the response to the last store request (delete, list, plot)
    extraDirs,  \* entries of results/deviation_array the program did not make
    fnIn,       \* arguments of the function a function specification applies
    fnOut       \* its result

\* What the steps of a run leave alone.
aux == <<resp, extraDirs, fnIn, fnOut>>

vars ==
    <<resDir, devFile, metaFile, dataDir, rawFiles, detached, run, nRuns,
      nFound, raced, aux>>

\* --------------------------------------------------------------- values
\* max_files: None, or an integer.
MaxFilesArgs ==
    {[given |-> FALSE, val |-> 0]}
        \cup {[given |-> TRUE, val |-> v] : v \in (-1)..MaxFiles}

\* An absent file.
NoDev == [exists |-> FALSE, run |-> 0, arr |-> <<>>]
NoMeta == [exists |-> FALSE, run |-> 0, kic_number |-> 0, total_files |-> 0,
           processed_files |-> 0, skipped_files |-> 0, time_bin_size |-> "0.5"]

\* The deviation sequence the conversion yields for handle h of target k
\* (the conversion is a deterministic function of the file).
FileDev(k, h) == IF h = 1 THEN <<k, -2>> ELSE <<(10 * k) + h>>

\* search_result of length n, in discovery order.
SearchResult(n) == [j \in 1..n |-> j]

\* Python truthiness of max_files.
Truthy(mf) == mf.given /\ mf.val # 0

\* seq[:m] of Python, m any integer.
SliceTo(seq, m) ==
    IF m >= 0
    THEN SubSeq(seq, 1, IF m < Len(seq) THEN m ELSE Len(seq))
    ELSE SubSeq(seq, 1, IF Len(seq) + m > 0 THEN Len(seq) + m ELSE 0)

\* Lines 75-79: the handle list after max_files limiting.
Limit(sr, mf) ==
    IF Truthy(mf) /\ mf.val < Len(sr) THEN SliceTo(sr, mf.val) ELSE sr

\* Mutant of DownloadWithTimeout: whatever is not a success is a timeout.
DownloadErrorAsTimeout(thr) ==
    IF thr = "ok" THEN <<TRUE, "lc", "None">>
    ELSE <<FALSE, "None", "Download timed out">>

\* download_with_timeout's return value, from the thread's state when
\* join(timeout) comes back: <<success, lc, error>>.
DownloadWithTimeout(thr) ==
    IF thr = "running" THEN <<FALSE, "None", "Download timed out">>
    ELSE IF thr = "ok" THEN <<TRUE, "lc", "None">>
    ELSE <<FALSE, "None", "error">>

\* Line 99-102: what the loop logs for a failed download, from the error
\* of the triple.
SkipReason(res) ==
    IF res[3] = "Download timed out" THEN "timeout" ELSE "dlerr"

\* Mutant of Extend: the new values go in front.
ExtendInFront(all, dev) == dev \o all

\* all_deviations.extend(deviation)
Extend(all, dev) == all \o dev

\* The loop of lines 91-130: another handle, or on to the save phase.
AfterIter(i, handles) == IF i < Len(handles) THEN "download" ELSE "save"

IdleRun ==
    [pc |-> "idle", kic |-> 0, max_files |-> [given |-> FALSE, val |-> 0],
     tag |-> 0, found |-> <<>>, handles |-> <<>>, i |-> 0, thr |-> "none",
     all_deviations |-> <<>>, total_files |-> 0, processed_files |-> 0,
     skipped_files |-> 0, exit |-> "none", status |-> "none",
     dlLog |-> <<>>, convLog |-> <<>>, outLog |-> <<>>, wrote |-> FALSE,
     dlRes |-> <<>>]

\* The handle of the current iteration.
Cur(r) == r.handles[r.i + 1]

\* A request to process_kic is being served.
Active(r) == r.pc \notin {"idle", "done"}

\* No request to the store answered.
NoResp == [op |-> "none", kic |-> 0, code |-> 0, kics |-> {}]

\* No function applied.
NoFn == <<>>

Init ==
    /\ resDir = [k \in Ids |-> FALSE]
    /\ devFile = [k \in Ids |-> NoDev]
    /\ metaFile = [k \in Ids |-> NoMeta]
    /\ dataDir = [k \in Ids |-> FALSE]
    /\ rawFiles = {}
    /\ detached = {}
    /\ run = [p \in Procs |-> IdleRun]
    /\ nRuns = 0
    /\ nFound = 0
    /\ raced = {}
    /\ resp = NoResp
    /\ extraDirs = {}
    /\ fnIn = NoFn
    /\ fnOut = NoFn

\* ---------------------------------------------------------------- actions
\* POST /process-kic arrives; process_kic_target creates its directories.
StartRun(p, k, mf) ==
    /\ run[p].pc \in {"idle", "done"}
    /\ nRuns + nFound < MaxWork
    /\ nRuns' = nRuns + 1
    /\ dataDir' = [dataDir EXCEPT ![k] = TRUE]
    /\ resDir' = [resDir EXCEPT ![k] = TRUE]
    /\ run' = [run EXCEPT ![p] =
                 [IdleRun EXCEPT !.pc = "search", !.kic = k, !.max_files = mf,
                                 !.tag = nRuns + 1]]
    /\ raced' = IF \E q \in Procs \ {p} : Active(run[q]) /\ run[q].kic = k
              THEN raced \cup {k} ELSE raced
    /\ UNCHANGED <<devFile, metaFile, rawFiles, detached, nFound, aux>>

\* Mutant of Search: the return on an empty search result is missing.
SearchWithoutReturn(p, n) ==
    LET r == run[p]
        hs == Limit(SearchResult(n), r.max_files)
    IN  /\ r.pc = "search"
        /\ run' = [run EXCEPT ![p] =
                     [r EXCEPT !.found = SearchResult(n), !.handles = hs,
                               !.total_files = Len(hs),
                               !.pc = AfterIter(0, hs)]]
        /\ nRuns + nFound + n <= MaxWork
        /\ nFound' = nFound + n
        /\ UNCHANGED <<resDir, devFile, metaFile, dataDir, rawFiles, detached,
                       nRuns, raced, aux>>

\* lk.search_lightcurve returns n handles; zero: return; else limit and
\* set up the metadata.
Search(p, n) ==
    LET r == run[p]
        hs == Limit(SearchResult(n), r.max_files)
    IN  /\ r.pc = "search"
        /\ run' = [run EXCEPT ![p] =
                     IF n = 0
                     THEN [r EXCEPT !.pc = "returned", !.exit = "returned"]
                     ELSE [r EXCEPT !.found = SearchResult(n), !.handles = hs,
                                    !.total_files = Len(hs),
                                    !.pc = AfterIter(0, hs)]]
        /\ nRuns + nFound + n <= MaxWork
        /\ nFound' = nFound + n
        /\ UNCHANGED <<resDir, devFile, metaFile, dataDir, rawFiles, detached,
                       nRuns, raced, aux>>

\* lk.search_lightcurve raises (no handler in process_kic_target).
SearchRaise(p) ==
    /\ run[p].pc = "search"
    /\ run' = [run EXCEPT ![p].pc = "raised", ![p].exit = "raised"]
    /\ UNCHANGED <<resDir, devFile, metaFile, dataDir, rawFiles, detached,
                   nRuns, nFound, raced, aux>>

\* download_with_timeout starts the thread that calls lc_file.download().
StartDownload(p) ==
    LET r == run[p]
    IN  /\ r.pc = "download"
        /\ run' = [run EXCEPT ![p] =
                     [r EXCEPT !.pc = "join", !.thr = "running",
                               !.dlLog = Append(r.dlLog, Cur(r))]]
        /\ UNCHANGED <<resDir, devFile, metaFile, dataDir, rawFiles, detached,
                       nRuns, nFound, raced, aux>>

\* The thread being joined: lc_file.download() returns; the file is at
\* lc.filename, or (onDisk = FALSE) it is not.
ThreadReturn(p, onDisk) ==
    LET r == run[p]
    IN  /\ r.pc = "join"
        /\ r.thr = "running"
        /\ rawFiles' = IF onDisk THEN rawFiles \cup {<<r.kic, Cur(r)>>}
                       ELSE rawFiles
        /\ run' = [run EXCEPT ![p].thr = "ok"]
        /\ UNCHANGED <<resDir, devFile, metaFile, dataDir, detached,
                       nRuns, nFound, raced, aux>>

\* The thread being joined: lc_file.download() raises.
ThreadRaise(p) ==
    LET r == run[p]
    IN  /\ r.pc = "join"
        /\ r.thr = "running"
        /\ run' = [run EXCEPT ![p].thr = "err"]
        /\ UNCHANGED <<resDir, devFile, metaFile, dataDir, rawFiles, detached,
                       nRuns, nFound, raced, aux>>

\* Mutant of Skip: the missing-file path forgets its counter.
SkipUncounted(r, why) ==
    [r EXCEPT !.skipped_files = IF why = "missing" THEN r.skipped_files
                                ELSE r.skipped_files + 1,
              !.outLog = Append(r.outLog, why),
              !.thr = "none",
              !.i = r.i + 1,
              !.pc = AfterIter(r.i + 1, r.handles)]

\* Mutant of Skip: a failed download is tried again.
SkipRetry(r, why) ==
    IF why = "dlerr"
    THEN [r EXCEPT !.skipped_files = r.skipped_files + 1,
                   !.thr = "none",
                   !.pc = "download"]
    ELSE [r EXCEPT !.skipped_files = r.skipped_files + 1,
                   !.outLog = Append(r.outLog, why),
                   !.thr = "none",
                   !.i = r.i + 1,
                   !.pc = AfterIter(r.i + 1, r.handles)]

\* One skipped file: lines 101-102, 112-113, 130.
Skip(r, why) ==
    [r EXCEPT !.skipped_files = r.skipped_files + 1,
              !.outLog = Append(r.outLog, why),
              !.thr = "none",
              !.i = r.i + 1,
              !.pc = AfterIter(r.i + 1, r.handles)]

\* Mutant of Join: thread.join() without the timeout.
JoinWithoutTimeout(p) ==
    LET r == run[p]
        res == DownloadWithTimeout(r.thr)
        f == <<r.kic, Cur(r)>>
    IN  /\ r.pc = "join"
        /\ r.thr # "running"
        /\ run' = [run EXCEPT ![p] =
                     [(IF ~res[1]
                       THEN Skip(r, SkipReason(res))
                       ELSE IF f \notin rawFiles
                            THEN Skip(r, "missing")
                            ELSE [r EXCEPT !.pc = "convert", !.thr = "none"])
                      EXCEPT !.dlRes = res]]
        /\ UNCHANGED <<resDir, devFile, metaFile, dataDir, rawFiles, detached,
                       nRuns, nFound, raced, aux>>

\* thread.join(timeout) comes back: the thread has finished, or the
\* timeout has elapsed and the thread is left running.
Join(p) ==
    LET r == run[p]
        res == DownloadWithTimeout(r.thr)
        f == <<r.kic, Cur(r)>>
    IN  /\ r.pc = "join"
        /\ detached' = IF r.thr = "running" THEN detached \cup {f}
                       ELSE detached
        /\ run' = [run EXCEPT ![p] =
                     [(IF ~res[1]
                       THEN Skip(r, SkipReason(res))
                       ELSE IF f \notin rawFiles
                            THEN Skip(r, "missing")
                            ELSE [r EXCEPT !.pc = "convert", !.thr = "none"])
                      EXCEPT !.dlRes = res]]
        /\ UNCHANGED <<resDir, devFile, metaFile, dataDir, rawFiles,
                       nRuns, nFound, raced, aux>>

\* Mutant of DetachedEnd: the result dictionary is shared, and the stray
\* result is taken for the result of the download being waited for.
DetachedEndShared(f, onDisk) ==
    /\ f \in detached
    /\ detached' = detached \ {f}
    /\ rawFiles' = IF onDisk THEN rawFiles \cup {f} ELSE rawFiles
    /\ run' = [p \in Procs |->
                 IF run[p].pc = "join" /\ run[p].thr = "running"
                 THEN [run[p] EXCEPT !.thr = "ok"] ELSE run[p]]
    /\ UNCHANGED <<resDir, devFile, metaFile, dataDir, nRuns, nFound,
                   raced, aux>>

\* A detached download ends, by returning (leaving its file or not) or by
\* raising; nobody reads its result dictionary.
DetachedEnd(f, onDisk) ==
    /\ f \in detached
    /\ detached' = detached \ {f}
    /\ rawFiles' = IF onDisk THEN rawFiles \cup {f} ELSE rawFiles
    /\ UNCHANGED <<resDir, devFile, metaFile, dataDir, run, nRuns, nFound,
                   raced, aux>>

\* get_lightcurve_deviation_array returns (okc) or raises.
Convert(p, okc) ==
    LET r == run[p]
    IN  /\ r.pc = "convert"
        /\ run' = [run EXCEPT ![p] =
                     IF okc
                     THEN [r EXCEPT
                             !.all_deviations =
                                 Extend(r.all_deviations,
                                        FileDev(r.kic, Cur(r))),
                             !.processed_files = r.processed_files + 1,
                             !.convLog = Append(r.convLog, Cur(r)),
                             !.outLog = Append(r.outLog, "ok"),
                             !.i = r.i + 1,
                             !.pc = AfterIter(r.i + 1, r.handles)]
                     ELSE [Skip(r, "converr") EXCEPT
                             !.convLog = Append(r.convLog, Cur(r))]]
        /\ UNCHANGED <<resDir, devFile, metaFile, dataDir, rawFiles, detached,
                       nRuns, nFound, raced, aux>>

\* Line 136: np.savetxt(results_dir / "deviation.txt", ...); it raises when
\* the directory is gone.
SaveDeviation(p) ==
    LET r == run[p]
    IN  /\ r.pc = "save"
        /\ r.processed_files > 0
        /\ IF resDir[r.kic]
           THEN /\ devFile' = [devFile EXCEPT ![r.kic] =
                                 [exists |-> TRUE, run |-> r.tag,
                                  arr |-> r.all_deviations]]
                /\ run' = [run EXCEPT ![p].pc = "meta", ![p].wrote = TRUE]
           ELSE /\ run' = [run EXCEPT ![p].pc = "raised", ![p].exit = "raised"]
                /\ UNCHANGED devFile
        /\ UNCHANGED <<resDir, metaFile, dataDir, rawFiles, detached,
                       nRuns, nFound, raced, aux>>

\* Lines 139-140: metadata.json.
SaveMetadata(p) ==
    LET r == run[p]
    IN  /\ r.pc = "meta"
        /\ IF resDir[r.kic]
           THEN /\ metaFile' = [metaFile EXCEPT ![r.kic] =
                                  [exists |-> TRUE, run |-> r.tag,
                                   kic_number |-> r.kic,
                                   total_files |-> r.total_files,
                                   processed_files |-> r.processed_files,
                                   skipped_files |-> r.skipped_files,
                                   time_bin_size |-> "0.5"]]
                /\ run' = [run EXCEPT ![p].pc = "cleanup"]
           ELSE /\ run' = [run EXCEPT ![p].pc = "raised", ![p].exit = "raised"]
                /\ UNCHANGED metaFile
        /\ UNCHANGED <<resDir, devFile, dataDir, rawFiles, detached,
                       nRuns, nFound, raced, aux>>

\* Mutant of RemoveResults: the result root is removed, not the directory
\* of the id.
RemoveResultRoot(p) ==
    LET r == run[p]
    IN  /\ r.pc = "save"
        /\ r.processed_files = 0
        /\ resDir' = [k \in Ids |-> FALSE]
        /\ devFile' = [k \in Ids |-> NoDev]
        /\ metaFile' = [k \in Ids |-> NoMeta]
        /\ run' = [run EXCEPT ![p].pc = "cleanup"]
        /\ UNCHANGED <<dataDir, rawFiles, detached, nRuns, nFound, raced, aux>>

\* Mutant of RemoveResults: only deviation.txt is removed.
RemoveDeviationOnly(p) ==
    LET r == run[p]
    IN  /\ r.pc = "save"
        /\ r.processed_files = 0
        /\ devFile' = [devFile EXCEPT ![r.kic] = NoDev]
        /\ run' = [run EXCEPT ![p].pc = "cleanup"]
        /\ UNCHANGED <<resDir, metaFile, dataDir, rawFiles, detached, nRuns,
                       nFound, raced, aux>>

\* Lines 144-147: nothing processed, shutil.rmtree(results_dir).
RemoveResults(p) ==
    LET r == run[p]
    IN  /\ r.pc = "save"
        /\ r.processed_files = 0
        /\ resDir' = [resDir EXCEPT ![r.kic] = FALSE]
        /\ devFile' = [devFile EXCEPT ![r.kic] = NoDev]
        /\ metaFile' = [metaFile EXCEPT ![r.kic] = NoMeta]
        /\ run' = [run EXCEPT ![p].pc = "cleanup"]
        /\ UNCHANGED <<dataDir, rawFiles, detached, nRuns, nFound, raced, aux>>

\* Line 150: shutil.rmtree(data_dir); process_kic_target returns.
Cleanup(p) ==
    LET r == run[p]
    IN  /\ r.pc = "cleanup"
        /\ dataDir' = [dataDir EXCEPT ![r.kic] = FALSE]
        /\ run' = [run EXCEPT ![p].pc = "returned", ![p].exit = "returned"]
        /\ UNCHANGED <<resDir, devFile, metaFile, rawFiles, detached,
                       nRuns, nFound, raced, aux>>

\* main.py 75-86: the response of process_kic.
Status(returned, devExists) ==
    IF ~returned THEN "http500"
    ELSE IF ~devExists THEN "error" ELSE "success"

Respond(p) ==
    LET r == run[p]
    IN  /\ r.pc \in {"returned", "raised"}
        /\ run' = [run EXCEPT ![p].pc = "done",
                              ![p].status =
                                  Status(r.exit = "returned",
                                         devFile[r.kic].exists)]
        /\ UNCHANGED <<resDir, devFile, metaFile, dataDir, rawFiles, detached,
                       nRuns, nFound, raced, aux>>

\* The steps of the thread that runs process_kic.
MainStep(p) ==
    \/ \E n \in 0..MaxFiles : Search(p, n)
    \/ SearchRaise(p)
    \/ StartDownload(p)
    \/ Join(p)
    \/ \E okc \in BOOLEAN : Convert(p, okc)
    \/ SaveDeviation(p)
    \/ SaveMetadata(p)
    \/ RemoveResults(p)
    \/ Cleanup(p)
    \/ Respond(p)

Next ==
    \/ \E p \in SeqProcs, k \in Ids, mf \in MaxFilesArgs : StartRun(p, k, mf)
    \/ \E p \in SeqProcs : MainStep(p)
    \/ \E p \in SeqProcs, onDisk \in BOOLEAN : ThreadReturn(p, onDisk)
    \/ \E p \in SeqProcs : ThreadRaise(p)
    \/ \E f \in detached, onDisk \in BOOLEAN : DetachedEnd(f, onDisk)

Spec == Init /\ [][Next]_vars

\* Fairness of the thread that runs process_kic: it is scheduled, and
\* join(timeout) comes back.  Nothing is assumed of the download threads.
FairSpec == Spec /\ \A p \in SeqProcs : WF_vars(MainStep(p))

\* ----------------------------------------------------------------- helpers
Min(a, b) == IF a < b THEN a ELSE b

\* Number of entries of log equal to what.
RECURSIVE Count(_, _)
Count(log, what) ==
    IF log = <<>> THEN 0
    ELSE (IF Head(log) = what THEN 1 ELSE 0) + Count(Tail(log), what)

\* The concatenation, in discovery order, of the deviation sequences of the
\* handles whose outcome in log is "ok".
RECURSIVE OkDeviations(_, _, _)
OkDeviations(k, handles, log) ==
    IF log = <<>> THEN <<>>
    ELSE (IF Head(log) = "ok" THEN FileDev(k, Head(handles)) ELSE <<>>)
             \o OkDeviations(k, Tail(handles), Tail(log))

\* process_kic_target has got past the search with at least one handle.
Discovered(r) == r.found # <<>>

\* The loop is over (the finalize phase, or later).
LoopDone(r) == r.pc \in {"save", "meta", "cleanup", "returned", "done"}

\* process_kic_target has returned (it did not raise).
Returned(r) == r.pc \in {"returned", "done"} /\ r.exit = "returned"

\* Iterations of the loop that are complete.
Iterations(r) ==
    IF r.pc \in {"join", "convert"} THEN Len(r.dlLog) - 1 ELSE Len(r.dlLog)

\* ------------------------------------------------------------------ claims
\* C1: after the k-th iteration processed_files + skipped_files = k, each
\* iteration having added one to exactly one counter (processed for an "ok"
\* outcome, skipped for any other), and once the loop is over the sum is
\* total_files, the length of the limited handle list; a metadata.json on
\* disk satisfies the same equation.
C1_CountersAddUp ==
    /\ \A p \in Procs :
         LET r == run[p]
         IN  /\ r.processed_files + r.skipped_files = Iterations(r)
             /\ Len(r.outLog) = Iterations(r)
             /\ r.processed_files = Count(r.outLog, "ok")
             /\ (Discovered(r) /\ LoopDone(r)) =>
                  /\ r.processed_files + r.skipped_files = r.total_files
                  /\ r.total_files = Len(r.handles)
    /\ \A k \in Ids :
         metaFile[k].exists =>
           metaFile[k].processed_files + metaFile[k].skipped_files
              = metaFile[k].total_files

\* C1 witness: a run of three files has returned with one file processed
\* and two skipped for different reasons.
C1_Witness ==
    \E p \in Procs :
        /\ Returned(run[p])
        /\ run[p].outLog = <<"missing", "dlerr", "ok">>
        /\ metaFile[run[p].kic].run = run[p].tag

\* C2: a run whose search returns no handle processes no file, starts no
\* download, writes neither deviation.txt nor metadata.json, and none of
\* its steps changes the two files of its id.
C2_EmptySearchCreatesNothing ==
    /\ [](\A p \in Procs :
            LET r == run[p]
            IN  (Returned(r) /\ ~Discovered(r)) =>
                  /\ r.processed_files = 0
                  /\ r.dlLog = <<>>
                  /\ ~r.wrote
                  /\ devFile[r.kic].run # r.tag
                  /\ metaFile[r.kic].run # r.tag)
    /\ [][\A p \in Procs :
            LET r == run[p]
            IN  (r.pc \notin {"idle", "search", "done"} /\ ~Discovered(r)
                 /\ run'[p].kic = r.kic) =>
                  /\ devFile'[r.kic] = devFile[r.kic]
                  /\ metaFile'[r.kic] = metaFile[r.kic]]_vars

\* C2 witness: a run that found nothing has returned while a ResultSet of
\* an earlier run of the same id is in the store.
C2_Witness ==
    \E p \in Procs :
        /\ Returned(run[p])
        /\ ~Discovered(run[p])
        /\ devFile[run[p].kic].exists
        /\ metaFile[run[p].kic].exists

\* C3 (as claimed, for the values of max_files a count can equal, 0 and
\* above): with max_files given, the handles attempted are the first
\* min(max_files, discovered count) handles, at most max_files of them, and
\* total_files is that count.
C3_MaxFilesTruncates ==
    \A p \in Procs :
        LET r == run[p]
            m == Min(r.max_files.val, Len(r.found))
        IN  (Discovered(r) /\ r.max_files.given /\ r.max_files.val >= 0) =>
              /\ Len(r.dlLog) <= r.max_files.val
              /\ r.handles = SubSeq(r.found, 1, m)
              /\ r.total_files = m

\* C4 (as claimed): in every state, for every id, deviation.txt and
\* metadata.json both exist and come from the same run, or neither exists.
C4_ResultSetAtomic ==
    \A k \in Ids :
        /\ devFile[k].exists <=> metaFile[k].exists
        /\ devFile[k].exists => devFile[k].run = metaFile[k].run

\* C5: whatever the download threads do (they may never end), every run
\* that is in its loop (about to download, waiting in join(timeout), or
\* converting) gets to its return; a join that comes back while the
\* download is still running counts the handle as skipped for a timeout and
\* moves on to the next handle or to the save phase.
C5_DeadlineProgress ==
    /\ \A p \in SeqProcs :
          (run[p].pc \in {"download", "join", "convert"}) ~> Returned(run[p])
    /\ [][\A p \in SeqProcs :
            LET r == run[p]
            IN  (r.pc = "join" /\ r.thr = "running" /\ run'[p].pc # "join") =>
                  /\ run'[p].outLog = Append(r.outLog, "timeout")
                  /\ run'[p].skipped_files = r.skipped_files + 1
                  /\ run'[p].i = r.i + 1
                  /\ run'[p].pc \in {"download", "save"}]_vars

\* C5 witness: a run has returned although the download of its first
\* handle has never ended.
C5_Witness ==
    \E p \in Procs :
        /\ Returned(run[p])
        /\ Len(run[p].outLog) > 1
        /\ run[p].outLog[1] = "timeout"
        /\ <<run[p].kic, 1>> \in detached

\* C6 (as claimed): once a run has returned, what the store holds for its
\* id is the array and the metadata of that run, or nothing.
C6_RerunReplaces ==
    \A p \in Procs :
        LET r == run[p]
        IN  Returned(r) =>
              /\ devFile[r.kic].exists =>
                    /\ devFile[r.kic].run = r.tag
                    /\ devFile[r.kic].arr = r.all_deviations
              /\ metaFile[r.kic].exists => metaFile[r.kic].run = r.tag

\* C7: the accumulated array is at every point the concatenation, in
\* discovery order, of the deviation sequences of the files with outcome
\* "ok", and so is the array a run has written; with three files of
\* target 1 of outcomes ok, timeout, conversion error the result is
\* processed 1, skipped 2, stored array <<1, -2>>.
C7_ArrayIsConcatenation ==
    \A p \in Procs :
        LET r == run[p]
            want == OkDeviations(r.kic, r.handles, r.outLog)
        IN  /\ r.all_deviations = want
            /\ (r.wrote /\ devFile[r.kic].run = r.tag) =>
                  devFile[r.kic].arr = want
            /\ (Returned(r) /\ r.processed_files > 0) =>
                  /\ devFile[r.kic].exists
                  /\ devFile[r.kic].arr = want
            /\ (Returned(r) /\ r.kic = 1
                /\ r.outLog = <<"ok", "timeout", "converr">>) =>
                  /\ r.processed_files = 1
                  /\ r.skipped_files = 2
                  /\ devFile[1].exists
                  /\ devFile[1].arr = <<1, -2>>

\* C7 witness: the scenario of three files, ok, timeout, conversion error.
C7_Witness ==
    \E p \in Procs :
        /\ Returned(run[p])
        /\ run[p].kic = 1
        /\ run[p].outLog = <<"ok", "timeout", "converr">>

\* C8: the downloads started are a prefix of the limited handle list, each
\* handle once and in order; a download starts only when all earlier
\* handles are counted; conversions are attempted at most once per handle;
\* when the loop is over every handle has been downloaded once, whatever
\* failed.
C8_OnceInOrder ==
    \A p \in Procs :
        LET r == run[p]
        IN  /\ Len(r.dlLog) <= Len(r.handles)
            /\ r.dlLog = SubSeq(r.handles, 1, Len(r.dlLog))
            /\ Len(r.dlLog) <= r.processed_files + r.skipped_files + 1
            /\ \A a, b \in 1..Len(r.convLog) :
                   a < b => r.convLog[a] < r.convLog[b]
            /\ (Discovered(r) /\ LoopDone(r)) => r.dlLog = r.handles

\* C8 witness: three handles, each failing in a different way, and the run
\* has returned.
C8_Witness ==
    \E p \in Procs :
        /\ Returned(run[p])
        /\ run[p].outLog = <<"timeout", "dlerr", "converr">>
        /\ run[p].dlLog = <<1, 2, 3>>

\* C9 (as claimed): a run that returned with no file processed leaves no
\* ResultSet of its id and is not answered "success"; "success" is
\* answered only to a run that processed a file.
C9_NoSuccessWithoutFile ==
    \A p \in Procs :
        LET r == run[p]
        IN  /\ (Returned(r) /\ r.processed_files = 0) =>
                  /\ ~devFile[r.kic].exists
                  /\ ~metaFile[r.kic].exists
            /\ (r.pc = "done" /\ r.exit = "returned"
                /\ r.processed_files = 0) =>
                  r.status \in {"error"}
            /\ (r.pc = "done" /\ r.status = "success") =>
                  r.processed_files > 0

\* C10 (as claimed): once process_kic_target has returned, data/kic_<id>
\* does not exist.
C10_ScratchRemoved ==
    \A p \in Procs :
        Returned(run[p]) => ~dataDir[run[p].kic]

\* C11 (as claimed): once process_kic_target has returned, no raw file
\* whose download the run started is on disk, whether the download ended
\* before the return or, detached after a timeout, after it.
C11_RawNeverRetained ==
    \A p \in Procs :
        LET r == run[p]
        IN  Returned(r) =>
              \A a \in 1..Len(r.dlLog) : <<r.kic, r.dlLog[a]>> \notin rawFiles

\* ------------------------------------------------- the result store (main.py)
\* Directory names are sequences of characters.
Digits == <<"0", "1", "2", "3", "4", "5", "6", "7", "8", "9">>

\* str(n) for a natural number n.
RECURSIVE Str(_)
Str(n) == IF n < 10 THEN <<Digits[n + 1]>>
          ELSE Str(n \div 10) \o <<Digits[(n % 10) + 1]>>

\* f"kic_{kic_number}"
KicName(k) == <<"k", "i", "c", "_">> \o Str(k)

\* name.startswith(prefix)
StartsWith(name, prefix) ==
    /\ Len(name) >= Len(prefix)
    /\ SubSeq(name, 1, Len(prefix)) = prefix

\* name.split(sep): the parts between the separators, empty parts kept.
RECURSIVE Split(_, _)
Split(name, sep) ==
    IF \A a \in 1..Len(name) : name[a] # sep THEN <<name>>
    ELSE LET at == CHOOSE a \in 1..Len(name) :
                     /\ name[a] = sep
                     /\ \A b \in 1..(a - 1) : name[b] # sep
         IN  <<SubSeq(name, 1, at - 1)>>
                 \o Split(SubSeq(name, at + 1, Len(name)), sep)

DigitValue(c) == (CHOOSE d \in 1..10 : Digits[d] = c) - 1

IsDigit(c) == \E d \in 1..10 : Digits[d] = c

RECURSIVE DecimalValue(_)
DecimalValue(s) ==
    IF s = <<>> THEN 0
    ELSE (10 * DecimalValue(SubSeq(s, 1, Len(s) - 1))) + DigitValue(s[Len(s)])

\* int(s) for a string of letters and digits: ValueError for the empty
\* string and for a string with a character that is no digit.
IntOf(s) ==
    IF s # <<>> /\ \A a \in 1..Len(s) : IsDigit(s[a])
    THEN [ok |-> TRUE, val |-> DecimalValue(s)]
    ELSE [ok |-> FALSE, val |-> 0]

\* Entries that may lie under results/deviation_array beside the
\* directories process_kic_target makes: kic_8, kic_12_x, kic_abc, kic_,
\* kic and tmp (directories) and kic_7 (a plain file).
OtherEntries ==
    { [name |-> KicName(8), isDir |-> TRUE],
      [name |-> <<"k", "i", "c", "_", "1", "2", "_", "x">>, isDir |-> TRUE],
      [name |-> <<"k", "i", "c", "_", "a", "b", "c">>, isDir |-> TRUE],
      [name |-> <<"k", "i", "c", "_">>, isDir |-> TRUE],
      [name |-> <<"k", "i", "c">>, isDir |-> TRUE],
      [name |-> <<"t", "m", "p">>, isDir |-> TRUE],
      [name |-> KicName(7), isDir |-> FALSE] }

\* results_dir.iterdir()
Entries ==
    { [name |-> KicName(k), isDir |-> TRUE] : k \in {j \in Ids : resDir[j]} }
        \cup extraDirs

\* main.py 187-190: the directories named kic_*, then int() of the second
\* part of each name; one ValueError fails the request (HTTP 500).
AvailableKics(entries) ==
    LET kic_dirs == {d \in entries :
                        d.isDir /\ StartsWith(d.name, <<"k", "i", "c", "_">>)}
        parsed == {IntOf(Split(d.name, "_")[2]) : d \in kic_dirs}
    IN  IF \E x \in parsed : ~x.ok
        THEN [op |-> "list", kic |-> 0, code |-> 500, kics |-> {}]
        ELSE [op |-> "list", kic |-> 0, code |-> 200,
              kics |-> {x.val : x \in parsed}]

\* No request to process_kic is being served.
Quiet == \A p \in Procs : ~Active(run[p])

\* GET /available-kics
GetAvailableKics ==
    /\ Quiet
    /\ resp' = AvailableKics(Entries)
    /\ UNCHANGED <<resDir, devFile, metaFile, dataDir, rawFiles, detached,
                   run, nRuns, nFound, raced, extraDirs, fnIn, fnOut>>

\* The result root in any state of its directories, with other entries.
ListInit ==
    /\ resDir \in [Ids -> BOOLEAN]
    /\ devFile = [k \in Ids |-> NoDev]
    /\ metaFile = [k \in Ids |-> NoMeta]
    /\ dataDir = [k \in Ids |-> FALSE]
    /\ rawFiles = {}
    /\ detached = {}
    /\ run = [p \in Procs |-> IdleRun]
    /\ nRuns = 0
    /\ nFound = 0
    /\ raced = {}
    /\ resp = NoResp
    /\ extraDirs \in SUBSET OtherEntries
    /\ fnIn = NoFn
    /\ fnOut = NoFn

ListNext == GetAvailableKics

ListSpec == ListInit /\ [][ListNext]_vars

\* A directory name of the form kic_<integer>.
ValidName(name) ==
    LET parts == Split(name, "_")
    IN  /\ Len(parts) = 2
        /\ parts[1] = <<"k", "i", "c">>
        /\ IntOf(parts[2]).ok

\* C12 (as claimed): whatever lies under the result root, the listing
\* returns without error and is exactly the set of ids of the directories
\* named kic_<integer>.
C12_ListSkipsMalformed ==
    resp.op = "list" =>
        /\ resp.code = 200
        /\ resp.kics = {IntOf(Split(d.name, "_")[2]).val :
                           d \in {e \in Entries :
                                     e.isDir /\ ValidName(e.name)}}

\* ------------------------------------------- deviation.txt, written and read
\* Bounds of the arrays the round trip is checked on.
MaxLen == 3

\* Digits after the point in the format np.savetxt writes ('%.18e').
FmtDigits == 18

\* An element of a deviation array: a number, or not-a-number.
Num(v) == [nan |-> FALSE, v |-> v]

NaN == [nan |-> TRUE, v |-> 0]

Elems == {NaN, Num(-2), Num(0), Num(12)}

Arrays == UNION {[1..n -> Elems] : n \in 0..MaxLen}

Zeros(n) == [a \in 1..n |-> "0"]

\* '%.18e' % x for an integer x, and for nan.
Format(x) ==
    IF x.nan THEN <<"n", "a", "n">>
    ELSE LET a == IF x.v < 0 THEN 0 - x.v ELSE x.v
             ds == Str(a)
             ex == Str(Len(ds) - 1)
         IN  (IF x.v < 0 THEN <<"-">> ELSE <<>>)
                 \o <<Head(ds), ".">> \o Tail(ds)
                 \o Zeros(FmtDigits - (Len(ds) - 1))
                 \o <<"e", "+">> \o Zeros(2 - Len(ex)) \o ex

\* np.savetxt(path, np.array(all_deviations)): one line per element.
SaveTxt(arr) == [a \in 1..Len(arr) |-> Format(arr[a])]

RECURSIVE StripZeros(_)
StripZeros(s) ==
    IF s # <<>> /\ s[Len(s)] = "0" THEN StripZeros(SubSeq(s, 1, Len(s) - 1))
    ELSE s

RECURSIVE Pow10(_)
Pow10(n) == IF n = 0 THEN 1 ELSE 10 * Pow10(n - 1)

\* float(line) for "nan" and for a line in the format of savetxt with an
\* integer value; anything else is a ValueError (ok = FALSE).
ParseFloat(line) ==
    IF line = <<"n", "a", "n">> THEN [ok |-> TRUE, x |-> NaN]
    ELSE LET neg == line # <<>> /\ Head(line) = "-"
             body == IF neg THEN Tail(line) ELSE line
             me == Split(body, "e")
             mp == Split(me[1], ".")
             fs == StripZeros(mp[2])
             ex == IntOf(Tail(me[2]))
             mant == IntOf(mp[1] \o fs)
         IN  IF /\ Len(me) = 2
                /\ Len(mp) = 2
                /\ me[2] # <<>>
                /\ Head(me[2]) = "+"
                /\ ex.ok
                /\ mant.ok
                /\ ex.val >= Len(fs)
             THEN [ok |-> TRUE,
                   x |-> Num((IF neg THEN -1 ELSE 1) * mant.val
                                * Pow10(ex.val - Len(fs)))]
             ELSE [ok |-> FALSE, x |-> NaN]

\* plot_deviation.py 33-55: np.loadtxt(file_path), which gives a file of
\* one value as a 0-dimensional array; on ValueError the line-by-line
\* reader; then len(data), a TypeError for a 0-dimensional array.
LoadForPlot(lines) ==
    LET parsed == [a \in 1..Len(lines) |-> ParseFloat(lines[a])]
        loadtxt_ok == \A a \in 1..Len(lines) : parsed[a].ok
        data == [a \in 1..Len(lines) |-> parsed[a].x]
        ndim == IF loadtxt_ok /\ Len(lines) = 1 THEN 0 ELSE 1
    IN  IF ndim = 0 THEN [ok |-> FALSE, data |-> <<>>]
        ELSE [ok |-> TRUE, data |-> data]

\* An array is written as process_kic_target writes it and read back as
\* plot_deviation reads it.
RoundTrip ==
    /\ fnOut = NoFn
    /\ fnOut' = LoadForPlot(SaveTxt(fnIn))
    /\ UNCHANGED <<resDir, devFile, metaFile, dataDir, rawFiles, detached,
                   run, nRuns, nFound, raced, resp, extraDirs, fnIn>>

RoundTripInit ==
    /\ resDir = [k \in Ids |-> FALSE]
    /\ devFile = [k \in Ids |-> NoDev]
    /\ metaFile = [k \in Ids |-> NoMeta]
    /\ dataDir = [k \in Ids |-> FALSE]
    /\ rawFiles = {}
    /\ detached = {}
    /\ run = [p \in Procs |-> IdleRun]
    /\ nRuns = 0
    /\ nFound = 0
    /\ raced = {}
    /\ resp = NoResp
    /\ extraDirs = {}
    /\ fnIn \in Arrays
    /\ fnOut = NoFn

RoundTripNext == RoundTrip

RoundTripSpec == RoundTripInit /\ [][RoundTripNext]_vars

\* C15 (as claimed): for every array, of every length from 0 and with
\* not-a-number at any positions, what the loader of the plots returns for
\* the deviation.txt written from it is a sequence equal to the array,
\* position by position.
C15_RoundTrip ==
    fnOut # NoFn =>
        /\ fnOut.ok
        /\ Len(fnOut.data) = Len(fnIn)
        /\ \A a \in 1..Len(fnIn) : fnOut.data[a] = fnIn[a]

\* --------------------------------------- delete, plot and compare (main.py)
\* main.py 208-217: the answer of delete_kic, 404 when the directory of the
\* id does not exist.
DeleteResp(k) ==
    [op |-> "delete", kic |-> k, code |-> IF resDir[k] THEN 200 ELSE 404,
     kics |-> {}]

\* What plot_deviation and plot_multiple_deviations load from the
\* deviation.txt of k; FALSE when the loader raises.
Loads(k) ==
    LoadForPlot(SaveTxt([a \in 1..Len(devFile[k].arr) |->
                            Num(devFile[k].arr[a])])).ok

\* main.py 104-128: 404 when deviation.txt of the id does not exist, else
\* the plot (HTTP 500 when plot_deviation raises).
PlotResp(k) ==
    [op |-> "plot", kic |-> k,
     code |-> IF ~devFile[k].exists THEN 404
              ELSE IF Loads(k) THEN 200 ELSE 500,
     kics |-> {}]

\* main.py 146-173: 404 when deviation.txt of one of the ids does not
\* exist, else the comparison plot; kics holds the ids asked for.
CompareResp(ks) ==
    [op |-> "compare", kic |-> 0,
     code |-> IF \E k \in ks : ~devFile[k].exists THEN 404
              ELSE IF \A k \in ks : Loads(k) THEN 200 ELSE 500,
     kics |-> ks]

\* Mutant of DeleteKic: no existence check, errors of rmtree ignored.
DeleteKicNoCheck(k) ==
    /\ Quiet
    /\ resp' = [op |-> "delete", kic |-> k, code |-> 200, kics |-> {}]
    /\ resDir' = [resDir EXCEPT ![k] = FALSE]
    /\ devFile' = [devFile EXCEPT ![k] = NoDev]
    /\ metaFile' = [metaFile EXCEPT ![k] = NoMeta]
    /\ UNCHANGED <<dataDir, rawFiles, detached, run, nRuns, nFound, raced,
                   extraDirs, fnIn, fnOut>>

\* Mutant of DeleteKic: deviation.txt is removed, the directory is left.
DeleteKicFileOnly(k) ==
    /\ Quiet
    /\ resp' = DeleteResp(k)
    /\ devFile' = [devFile EXCEPT ![k] = NoDev]
    /\ UNCHANGED <<resDir, metaFile, dataDir, rawFiles, detached, run, nRuns,
                   nFound, raced, extraDirs, fnIn, fnOut>>

\* DELETE /delete-kic/{kic_number}: 404, or shutil.rmtree(results_dir).
DeleteKic(k) ==
    /\ Quiet
    /\ resp' = DeleteResp(k)
    /\ IF resDir[k]
       THEN /\ resDir' = [resDir EXCEPT ![k] = FALSE]
            /\ devFile' = [devFile EXCEPT ![k] = NoDev]
            /\ metaFile' = [metaFile EXCEPT ![k] = NoMeta]
       ELSE UNCHANGED <<resDir, devFile, metaFile>>
    /\ UNCHANGED <<dataDir, rawFiles, detached, run, nRuns, nFound, raced,
                   extraDirs, fnIn, fnOut>>

\* GET /plot-deviation/{kic_number}
GetDeviationPlot(k) ==
    /\ Quiet
    /\ resp' = PlotResp(k)
    /\ UNCHANGED <<resDir, devFile, metaFile, dataDir, rawFiles, detached,
                   run, nRuns, nFound, raced, extraDirs, fnIn, fnOut>>

\* GET /compare-deviations
CompareDeviations(ks) ==
    /\ Quiet
    /\ resp' = CompareResp(ks)
    /\ UNCHANGED <<resDir, devFile, metaFile, dataDir, rawFiles, detached,
                   run, nRuns, nFound, raced, extraDirs, fnIn, fnOut>>

\* What the runs (sequential, no run active) leave of an id under the
\* result root: nothing; the empty directory (the search raised); the
\* ResultSet of a run of one file; the ResultSet of a run of two files of
\* which the first was skipped.
Leftovers == {"none", "dir", "one", "two"}

LeftDev(k, st) ==
    IF st = "one"
    THEN [exists |-> TRUE, run |-> 1, arr |-> FileDev(k, 1)]
    ELSE IF st = "two"
         THEN [exists |-> TRUE, run |-> 1, arr |-> FileDev(k, 2)]
         ELSE NoDev

LeftMeta(k, st) ==
    IF st \in {"one", "two"}
    THEN [exists |-> TRUE, run |-> 1, kic_number |-> k,
          total_files |-> IF st = "one" THEN 1 ELSE 2,
          processed_files |-> 1,
          skipped_files |-> IF st = "one" THEN 0 ELSE 1,
          time_bin_size |-> "0.5"]
    ELSE NoMeta

StoreInit ==
    /\ \E st \in [Ids -> Leftovers] :
          /\ resDir = [k \in Ids |-> st[k] # "none"]
          /\ devFile = [k \in Ids |-> LeftDev(k, st[k])]
          /\ metaFile = [k \in Ids |-> LeftMeta(k, st[k])]
    /\ dataDir = [k \in Ids |-> FALSE]
    /\ rawFiles = {}
    /\ detached = {}
    /\ run = [p \in Procs |-> IdleRun]
    /\ nRuns = 0
    /\ nFound = 0
    /\ raced = {}
    /\ resp = NoResp
    /\ extraDirs = {}
    /\ fnIn = NoFn
    /\ fnOut = NoFn

\* The requests to the store.
StoreNext ==
    \/ \E k \in Ids : DeleteKic(k)
    \/ GetAvailableKics
    \/ \E k \in Ids : GetDeviationPlot(k)
    \/ \E ks \in (SUBSET Ids) \ {{}} : CompareDeviations(ks)

StoreSpec == StoreInit /\ [][StoreNext]_vars

\* A step that answers a delete of k.
DeleteAnswered(k) ==
    /\ resp'.op = "delete"
    /\ resp'.kic = k
    /\ resp' # resp

\* C13: a delete of an id that has no result directory is answered 404 and
\* changes nothing on disk: the directories, every deviation.txt and
\* metadata.json, and what the listing returns are the same after it.
C13_DeleteMissingChangesNothing ==
    [][\A k \in Ids :
          (DeleteAnswered(k) /\ ~resDir[k]) =>
             /\ resp'.code = 404
             /\ UNCHANGED <<resDir, devFile, metaFile, dataDir, rawFiles>>
             /\ AvailableKics(Entries)' = AvailableKics(Entries)]_vars

\* C13 witness: a delete has been answered 404 while the ResultSet of
\* another id is in the store.
C13_Witness ==
    \E k \in Ids, j \in Ids :
        /\ j # k
        /\ resp = [op |-> "delete", kic |-> k, code |-> 404, kics |-> {}]
        /\ devFile[j].exists
        /\ metaFile[j].exists

\* C14: a delete of an id whose result directory exists is answered 200
\* and removes the directory with its deviation.txt and metadata.json;
\* after it the id is not listed, a plot, a comparison and a second delete
\* of it are answered 404, and the directory, array and metadata of every
\* other id are as before.
C14_DeleteRemovesUnit ==
    [][\A k \in Ids :
          (DeleteAnswered(k) /\ resDir[k]) =>
             /\ resp'.code = 200
             /\ ~resDir'[k]
             /\ ~devFile'[k].exists
             /\ ~metaFile'[k].exists
             /\ k \notin AvailableKics(Entries)'.kics
             /\ PlotResp(k)'.code = 404
             /\ \A ks \in SUBSET Ids : k \in ks => CompareResp(ks)'.code = 404
             /\ DeleteResp(k)'.code = 404
             /\ \A j \in Ids \ {k} :
                   /\ resDir'[j] = resDir[j]
                   /\ devFile'[j] = devFile[j]
                   /\ metaFile'[j] = metaFile[j]]_vars

\* C14 witness: the directory of an id has been deleted while the
\* ResultSet of another id is in the store.
C14_Witness ==
    \E k \in Ids, j \in Ids :
        /\ j # k
        /\ resp = [op |-> "delete", kic |-> k, code |-> 200, kics |-> {}]
        /\ ~resDir[k]
        /\ devFile[j].exists
        /\ metaFile[j].exists

\* C16: whatever the download does (returns, raises, or is still running
\* when join(timeout) comes back), download_with_timeout returns a triple
\* and process_kic_target goes on (it does not leave by an exception);
\* a download that raised gives (False, None, error) and is logged as a
\* download error, not as a timeout; the timeout triple is returned only
\* while the download is still running.
C16_DownloadNeverRaises ==
    /\ [](\A p \in Procs :
            run[p].dlRes \in {<<>>, <<TRUE, "lc", "None">>,
                              <<FALSE, "None", "error">>,
                              <<FALSE, "None", "Download timed out">>})
    /\ [][\A p \in Procs :
            LET r == run[p]
                q == run'[p]
            IN  (r.pc = "join" /\ q.pc # "join") =>
                  /\ q.pc \in {"download", "convert", "save"}
                  /\ q.exit = "none"
                  /\ (r.thr = "err") =>
                        /\ q.dlRes = <<FALSE, "None", "error">>
                        /\ q.outLog = Append(r.outLog, "dlerr")
                  /\ (r.thr = "ok") => q.dlRes = <<TRUE, "lc", "None">>
                  /\ (r.thr = "running") =>
                        q.dlRes = <<FALSE, "None", "Download timed out">>
                  /\ (q.dlRes[3] = "Download timed out") =>
                        r.thr = "running"]_vars

\* C16 witness: in one run a download has raised and a later one has timed
\* out, and the run has returned.
C16_Witness ==
    \E p \in Procs :
        /\ Returned(run[p])
        /\ run[p].outLog = <<"dlerr", "timeout">>
        /\ run[p].dlRes = <<FALSE, "None", "Download timed out">>

\* s is a prefix of t.
IsPrefix(s, t) == Len(s) <= Len(t) /\ s = SubSeq(t, 1, Len(s))

\* C17: the end of a download left running after its timeout, whenever it
\* comes, changes no counter, no accumulated array and no file of the
\* result store; within a run the outcome logged for a handle is never
\* rewritten, and a timed-out handle is one of the skipped ones, once;
\* download_with_timeout returns success only for a thread that has
\* ended after storing what download() returned.
C17_StrayResultDiscarded ==
    /\ [][(detached' # detached /\ detached' \subseteq detached) =>
             UNCHANGED <<run, resDir, devFile, metaFile>>]_vars
    /\ [][\A p \in Procs :
            LET r == run[p]
                q == run'[p]
            IN  /\ (q.tag = r.tag) => IsPrefix(r.outLog, q.outLog)
                /\ (r.pc = "join" /\ q.dlRes = <<TRUE, "lc", "None">>
                    /\ q.pc # "join") => r.thr = "ok"]_vars
    /\ [](\A p \in Procs :
            LET r == run[p]
            IN  /\ r.skipped_files = Len(r.outLog) - Count(r.outLog, "ok")
                /\ Len(r.outLog) <= Len(r.handles))

\* C17 witness: the first run timed out on its first handle, processed the
\* second and returned, and the detached download has ended and left its
\* file; the stored array is that of the second handle alone.
C17_Witness ==
    \E p \in Procs :
        LET r == run[p]
        IN  /\ Returned(r)
            /\ r.tag = 1
            /\ r.outLog = <<"timeout", "ok">>
            /\ <<r.kic, 1>> \in rawFiles
            /\ <<r.kic, 1>> \notin detached
            /\ devFile[r.kic].arr = FileDev(r.kic, 2)
            /\ r.skipped_files = 1

\* C18 (as claimed): when an iteration of the loop is over, whatever its
\* outcome, the raw file downloaded in it is no longer on disk, so that at
\* most one raw file of the run is on disk at any point of the batch.
C18_RawRemovedPerIteration ==
    \A p \in Procs :
        LET r == run[p]
            onDisk == {a \in 1..Len(r.dlLog) :
                          <<r.kic, r.dlLog[a]>> \in rawFiles}
        IN  Active(r) =>
              /\ \A a \in 1..Iterations(r) : a \notin onDisk
              /\ Cardinality(onDisk) <= 1

\* ------------------------------------ the window of the conversion (dip_array)
\* Sample times are 0..MaxTime.
MaxTime == 3

\* start_day, duration_days: None, or a number.
DayArgs ==
    {[given |-> FALSE, val |-> 0]}
        \cup {[given |-> TRUE, val |-> v] : v \in (-1)..(MaxTime + 1)}

\* lc.time.value of a file: at least one sample.
TimeSets == (SUBSET (0..MaxTime)) \ {{}}

SetMin(S) == CHOOSE x \in S : \A y \in S : x <= y

SetMax(S) == CHOOSE x \in S : \A y \in S : x >= y

\* Mutant of ResolveWindow: the end is not cut at the last sample.
ResolveWindowUnclamped(times, start_day, duration_days) ==
    LET time_min == SetMin(times)
        time_max == SetMax(times)
        start == IF ~start_day.given \/ start_day.val < time_min
                 THEN time_min ELSE start_day.val
        end == IF duration_days.given THEN start + duration_days.val
               ELSE time_max
        mask == {t \in times : t >= start /\ t <= end}
    IN  [start |-> start, end |-> end, raised |-> mask = {},
         selected |-> mask]

\* dip_array.py 26-43: start_day and end_day as the code resolves them,
\* the mask, and the ValueError for an empty mask.
ResolveWindow(times, start_day, duration_days) ==
    LET time_min == SetMin(times)
        time_max == SetMax(times)
        start == IF ~start_day.given \/ start_day.val < time_min
                 THEN time_min ELSE start_day.val
        end == IF duration_days.given
               THEN (IF start + duration_days.val > time_max THEN time_max
                     ELSE start + duration_days.val)
               ELSE time_max
        mask == {t \in times : t >= start /\ t <= end}
    IN  [start |-> start, end |-> end, raised |-> mask = {},
         selected |-> mask]

\* get_lightcurve_deviation_array is called on a file.
Resolve ==
    /\ fnOut = NoFn
    /\ fnOut' = ResolveWindow(fnIn.times, fnIn.start_day, fnIn.duration_days)
    /\ UNCHANGED <<resDir, devFile, metaFile, dataDir, rawFiles, detached,
                   run, nRuns, nFound, raced, resp, extraDirs, fnIn>>

WindowInit ==
    /\ resDir = [k \in Ids |-> FALSE]
    /\ devFile = [k \in Ids |-> NoDev]
    /\ metaFile = [k \in Ids |-> NoMeta]
    /\ dataDir = [k \in Ids |-> FALSE]
    /\ rawFiles = {}
    /\ detached = {}
    /\ run = [p \in Procs |-> IdleRun]
    /\ nRuns = 0
    /\ nFound = 0
    /\ raced = {}
    /\ resp = NoResp
    /\ extraDirs = {}
    /\ fnIn \in [times : TimeSets, start_day : DayArgs, duration_days : DayArgs]
    /\ fnOut = NoFn

WindowNext == Resolve

WindowSpec == WindowInit /\ [][WindowNext]_vars

Max(a, b) == IF a > b THEN a ELSE b

\* C19: the resolved start is max(start_day, first sample time), or the
\* first sample time when start_day is absent; the resolved end is
\* min(start + duration_days, last sample time), or the last sample time
\* when duration_days is absent; the conversion raises exactly when no
\* sample time lies in [start, end], as it does for a start_day after the
\* last sample; otherwise the selected samples are those in [start, end].
C19_WindowResolution ==
    fnOut # NoFn =>
        LET lo == SetMin(fnIn.times)
            hi == SetMax(fnIn.times)
            sd == fnIn.start_day
            dd == fnIn.duration_days
            start == IF sd.given THEN Max(sd.val, lo) ELSE lo
            end == IF dd.given THEN Min(start + dd.val, hi) ELSE hi
        IN  /\ fnOut.start = start
            /\ fnOut.end = end
            /\ fnOut.raised <=> ~(\E t \in fnIn.times : start <= t /\ t <= end)
            /\ (sd.given /\ sd.val > hi) => fnOut.raised
            /\ ~fnOut.raised =>
                  /\ \A t \in fnOut.selected : start <= t /\ t <= end
                  /\ \A t \in fnIn.times :
                        (start <= t /\ t <= end) => t \in fnOut.selected

\* C19 witness: a start_day inside the file and a duration that runs past
\* the last sample: the end is cut to the last sample, and samples before
\* the start are left out.
C19_Witness ==
    /\ fnOut # NoFn
    /\ fnIn.times = {0, 1, 3}
    /\ fnIn.start_day = [given |-> TRUE, val |-> 1]
    /\ fnIn.duration_days = [given |-> TRUE, val |-> 4]
    /\ fnOut.selected = {1, 3}
    /\ fnOut.end = 3

\* --------------------------------------------------- two runs at the same time
\* Files a search returns at most when two runs are interleaved.
ConcFiles == 1

\* Two requests to process_kic served at the same time (max_files left
\* out), their steps interleaved; a download that returns leaves its
\* file, and one left running after its timeout is not followed further.
ConcNext ==
    \/ \E p \in Procs, k \in Ids :
          StartRun(p, k, [given |-> FALSE, val |-> 0])
    \/ \E p \in Procs, n \in 0..ConcFiles : Search(p, n)
    \/ \E p \in Procs : SearchRaise(p)
    \/ \E p \in Procs : StartDownload(p)
    \/ \E p \in Procs : Join(p)
    \/ \E p \in Procs, okc \in BOOLEAN : Convert(p, okc)
    \/ \E p \in Procs : SaveDeviation(p)
    \/ \E p \in Procs : SaveMetadata(p)
    \/ \E p \in Procs : RemoveResults(p)
    \/ \E p \in Procs : Cleanup(p)
    \/ \E p \in Procs : Respond(p)
    \/ \E p \in Procs : ThreadReturn(p, TRUE)
    \/ \E p \in Procs : ThreadRaise(p)

ConcSpec == Init /\ [][ConcNext]_vars

\* No run of k is between its start and its answer.
Settled(k) == \A p \in Procs : ~(Active(run[p]) /\ run[p].kic = k)

\* The directory of k holds the array of one run and the metadata of
\* another.
Mixed(k) ==
    /\ devFile[k].exists
    /\ metaFile[k].exists
    /\ devFile[k].run # metaFile[k].run

\* The directory of k holds one of the two files only.
Partial(k) == devFile[k].exists # metaFile[k].exists

\* A write of the finalize phase of p has failed.
WriteFailed(p) == run[p].exit = "raised" /\ Discovered(run[p])

\* C20: the final state of an id can be inconsistent (array of one run
\* with metadata of another, one file only, or a write that failed on a
\* removed directory), and it is so only for an id of which two runs were
\* in progress at the same time.
C20_SameIdRunsRace ==
    /\ \A k \in Ids : (Settled(k) /\ (Mixed(k) \/ Partial(k))) => k \in raced
    /\ \A p \in Procs : WriteFailed(p) => run[p].kic \in raced

\* C20 witness: two runs of the same id have both returned; the directory
\* holds the array of the one and the metadata of the other.
C20_Witness ==
    \E k \in Ids :
        /\ \A p \in Procs : Returned(run[p]) /\ run[p].kic = k
        /\ Mixed(k)
        /\ run[1].pc = "done"
        /\ run[2].pc = "done"

\* C21: a result directory, a scratch directory, a deviation.txt or a
\* metadata.json of an id b changes only in a step of a run for b; and
\* however runs for different ids are interleaved, a run that returns
\* (no other run of its own id having been in progress) leaves for its
\* id what it leaves when alone: the array and the counters it
\* accumulated if it processed a file, no directory if it found files and
\* processed none.
C21_DistinctIdsIndependent ==
    /\ [][\A b \in Ids :
            (\/ resDir'[b] # resDir[b]
             \/ dataDir'[b] # dataDir[b]
             \/ devFile'[b] # devFile[b]
             \/ metaFile'[b] # metaFile[b]) =>
               \E p \in Procs : run'[p] # run[p] /\ run'[p].kic = b]_vars
    /\ [][\A p \in Procs :
            LET r == run[p]
                k == r.kic
            IN  (r.pc = "cleanup" /\ run'[p].pc = "returned"
                 /\ k \notin raced) =>
                  /\ ~dataDir'[k]
                  /\ IF r.processed_files > 0
                     THEN /\ resDir'[k]
                          /\ devFile'[k] =
                               [exists |-> TRUE, run |-> r.tag,
                                arr |-> OkDeviations(k, r.handles, r.outLog)]
                          /\ metaFile'[k] =
                               [exists |-> TRUE, run |-> r.tag,
                                kic_number |-> k,
                                total_files |-> r.total_files,
                                processed_files |-> r.processed_files,
                                skipped_files |-> r.skipped_files,
                                time_bin_size |-> "0.5"]
                     ELSE /\ ~resDir'[k]
                          /\ ~devFile'[k].exists
                          /\ ~metaFile'[k].exists]_vars

\* C21 witness: two runs for different ids are in progress at the same
\* time, both past their writes, and each id holds the ResultSet of its
\* own run.
C21_Witness ==
    /\ run[1].pc = "cleanup"
    /\ run[2].pc = "cleanup"
    /\ run[1].kic # run[2].kic
    /\ \A p \in Procs :
          /\ devFile[run[p].kic].run = run[p].tag
          /\ metaFile[run[p].kic].run = run[p].tag
          /\ run[p].processed_files > 0

\* C22 (as claimed): when no operation is in progress, the ids
\* get_available_kics returns are exactly the ids whose deviation.txt and
\* metadata.json both exist.
C22_ListedIffLoadable ==
    Quiet =>
        /\ AvailableKics(Entries).code = 200
        /\ \A k \in Ids :
              (k \in AvailableKics(Entries).kics)
                  <=> (devFile[k].exists /\ metaFile[k].exists)

====
